---- MODULE Spec2Model ----
(***************************************************************************)
(* Model of the japanese-segmenter core: the segmentation lattice          *)
(* (crates/segmenter/src/lattice.rs) and the tokenizer                     *)
(* (crates/segmenter/src/tokenizer.rs) over a dictionary                   *)
(* (crates/segmenter/src/dictionary.rs).                                   *)
(*                                                                         *)
(* A text is a sequence of Unicode code points (integers).  Byte offsets   *)
(* are those of the UTF-8 encoding, as in Rust's str.  Scores are f32 in   *)
(* the source; every score the model produces is an integer far below      *)
(* 2^24, where f32 arithmetic is exact, so they are modelled as integers.  *)
(***************************************************************************)
EXTENDS Integers, Sequences, FiniteSets, TLC

VARIABLES
    text,            \* the input string of tokenize, a sequence of code points
    dictionary,      \* Tokenizer.dictionary
    pc,              \* position in tokenize / find_path
    run,             \* which call of tokenize on the same Tokenizer this is
    lattice,         \* the Lattice: [length, nodes, start, end]
    start,           \* loop variable `start` of tokenize
    found_any_term,  \* flag set by the dictionary closure
    total_scores,    \* find_path local, indexed by node id + 1
    previous_nodes,  \* find_path local, indexed by node id + 1
    pos,             \* loop variable `i` of find_path's propagation
    current_node_id, \* find_path local of the backward walk
    node_path,       \* find_path local
    path,            \* value returned by find_path, as node ids
    tokens,          \* value returned by tokenize
    first_tokens,    \* value returned by the first call (run 1)
    unknown_ids,     \* history: the ids of the nodes the unknown-word closure added
    added,           \* history: the nodes passed to add_node on this lattice, in call order
    panic            \* "" or the panic that aborted the call

vars == << text, dictionary, pc, run, lattice, start, found_any_term,
           total_scores, previous_nodes, pos, current_node_id, node_path,
           path, tokens, first_tokens, unknown_ids, added, panic >>

---------------------------------------------------------------------------
(* Bounds of the model.                                                    *)

\* longest input text, in code points
MaxLen == 3
\* most nodes added to a lattice built directly through add_node
MaxNodes == 3
\* largest node score of a lattice built directly through add_node
MaxScore == 2

---------------------------------------------------------------------------
(* Generic helpers.                                                        *)

None == << >>
Some(x) == << x >>
IsSome(o) == Len(o) = 1
Unwrap(o) == o[1]

Range(s) == { s[k] : k \in 1..Len(s) }

RECURSIVE Reverse(_)
Reverse(s) == IF s = << >> THEN << >> ELSE Append(Reverse(Tail(s)), Head(s))

RECURSIVE Pow(_, _)
Pow(b, e) == IF e = 0 THEN 1 ELSE b * Pow(b, e - 1)

RECURSIVE Concat(_)
Concat(ss) == IF ss = << >> THEN << >> ELSE Head(ss) \o Concat(Tail(ss))

\* bit test of a bitflags value: self.contains(flag), flag a single bit
Contains(bits, flag) == (bits \div flag) % 2 = 1

---------------------------------------------------------------------------
(* Rust str: UTF-8 byte offsets of code points.                            *)

Utf8Len(c) == IF c < 128 THEN 1 ELSE IF c < 2048 THEN 2 ELSE IF c < 65536 THEN 3 ELSE 4

RECURSIVE ByteLen(_)
ByteLen(s) == IF s = << >> THEN 0 ELSE Utf8Len(Head(s)) + ByteLen(Tail(s))

\* text.char_indices(): the sequence of (byte offset, code point)
CharIndices(s) == [ k \in 1..Len(s) |-> << ByteLen(SubSeq(s, 1, k - 1)), s[k] >> ]

\* text.char_indices().nth(n): Option<(usize, char)>, n counted from 0
Nth(s, n) == IF n < Len(s) THEN Some(CharIndices(s)[n + 1]) ELSE None

\* text.char_indices().nth(n).map(|(n, _)| n)
NthPos(s, n) == IF IsSome(Nth(s, n)) THEN Some(Unwrap(Nth(s, n))[1]) ELSE None

\* &text[a..b], a and b byte offsets on code-point boundaries, a <= b
Slice(s, a, b) ==
    LET ci == CharIndices(s)
        keep == { k \in 1..Len(s) : ci[k][1] >= a /\ ci[k][1] < b }
    IN  [ j \in 1..Cardinality(keep) |->
            s[(CHOOSE k \in keep : Cardinality({ m \in keep : m < k }) = j - 1)] ]

---------------------------------------------------------------------------
(* Unicode script properties used by REGEX_CATEGORIES (the regex crate's    *)
(* \p{Katakana}, \p{Hiragana}, \p{Han} tables).                            *)

In(c, lo, hi) == c >= lo /\ c <= hi

ScriptKatakana(c) ==
    \/ In(c, \H30A1, \H30FA) \/ In(c, \H30FD, \H30FF) \/ In(c, \H31F0, \H31FF)
    \/ In(c, \H32D0, \H32FE) \/ In(c, \H3300, \H3357) \/ In(c, \HFF66, \HFF6F)
    \/ In(c, \HFF71, \HFF9D) \/ c = \H1B000 \/ In(c, \H1B164, \H1B167)

ScriptHiragana(c) ==
    \/ In(c, \H3041, \H3096) \/ In(c, \H309D, \H309F) \/ In(c, \H1B001, \H1B11E)
    \/ In(c, \H1B150, \H1B152) \/ c = \H1F200

ScriptHan(c) ==
    \/ In(c, \H2E80, \H2E99) \/ In(c, \H2E9B, \H2EF3) \/ In(c, \H2F00, \H2FD5)
    \/ c = \H3005 \/ c = \H3007 \/ In(c, \H3021, \H3029) \/ In(c, \H3038, \H303B)
    \/ In(c, \H3400, \H4DBF) \/ In(c, \H4E00, \H9FFC) \/ In(c, \HF900, \HFA6D)
    \/ In(c, \HFA70, \HFAD9) \/ In(c, \H20000, \H2A6DD) \/ In(c, \H2A700, \H2FA1D)

\* the bracket set of the fourth regex: 々 一-龯 ァ-ヺ ヽ ヾ ぁ-ゔ ゝ ゞ ー
JapaneseSet(c) ==
    \/ c = \H3005 \/ In(c, \H4E00, \H9FAF) \/ In(c, \H30A1, \H30FA)
    \/ c = \H30FD \/ c = \H30FE \/ In(c, \H3041, \H3094)
    \/ c = \H309D \/ c = \H309E \/ c = \H30FC

\* ^(class)+$ : a non-empty word all of whose code points are in the class
MatchesKatakana(word) == word # << >> /\ \A k \in 1..Len(word) : ScriptKatakana(word[k])
MatchesKana(word) ==
    word # << >> /\ \A k \in 1..Len(word) : ScriptKatakana(word[k]) \/ ScriptHiragana(word[k])
MatchesWord(word) ==
    word # << >> /\ \A k \in 1..Len(word) : ScriptHan(word[k]) \/ ScriptHiragana(word[k])
MatchesNonWord(word) == word # << >> /\ \A k \in 1..Len(word) : ~JapaneseSet(word[k])

WordCategory == { "Katakana", "Kana", "Word", "NonWord" }

\* the first regex of REGEX_CATEGORIES that matches decides; NonWord otherwise
categorize_word(word) ==
    IF MatchesKatakana(word) THEN "Katakana"
    ELSE IF MatchesKana(word) THEN "Kana"
    ELSE IF MatchesWord(word) THEN "Word"
    ELSE IF MatchesNonWord(word) THEN "NonWord"
    ELSE "NonWord"

---------------------------------------------------------------------------
(* The single-character category table of inner_loop_unknown_term.         *)

IsSpace(c) == c \in { \H0020, \H00D0, \H0009, \H000B, \H000A }

IsKanji(c) ==
    \/ In(c, \H2E80, \H2EF3) \/ In(c, \H2F00, \H2FD5) \/ c = \H3005 \/ c = \H3007
    \/ In(c, \H3400, \H4DB5) \/ In(c, \H4E00, \H9FA5) \/ In(c, \HF900, \HFA2D)
    \/ In(c, \HFA30, \HFA6A)

IsSymbol(c) ==
    \/ In(c, \H0021, \H002F) \/ In(c, \H003A, \H0040) \/ In(c, \H005B, \H0060)
    \/ In(c, \H007B, \H007E) \/ In(c, \H00A1, \H00BF) \/ In(c, \HFF01, \HFF0F)
    \/ In(c, \HFF1A, \HFF1F) \/ In(c, \HFF3B, \HFF40) \/ In(c, \HFF5B, \HFF65)
    \/ In(c, \HFFE0, \HFFEF) \/ In(c, \H2000, \H206F) \/ In(c, \H20A0, \H20CF)
    \/ In(c, \H20D0, \H20FF) \/ In(c, \H2100, \H214F) \/ In(c, \H2190, \H21FF)
    \/ In(c, \H2200, \H22FF) \/ In(c, \H2300, \H23FF) \/ In(c, \H2460, \H24FF)
    \/ In(c, \H2501, \H257F) \/ In(c, \H2580, \H259F) \/ In(c, \H25A0, \H25FF)
    \/ In(c, \H2600, \H26FE) \/ In(c, \H2700, \H27BF) \/ In(c, \H27F0, \H27FF)
    \/ In(c, \H27C0, \H27EF) \/ In(c, \H2800, \H28FF) \/ In(c, \H2900, \H297F)
    \/ In(c, \H2B00, \H2BFF) \/ In(c, \H2A00, \H2AFF) \/ In(c, \H3300, \H33FF)
    \/ In(c, \H3200, \H32FE) \/ In(c, \H3000, \H303F) \/ In(c, \HFE30, \HFE4F)
    \/ In(c, \HFE50, \HFE6B)

IsNumeric(c) ==
    \/ In(c, \H0030, \H0039) \/ In(c, \HFF10, \HFF19) \/ In(c, \H2070, \H209F)
    \/ In(c, \H2150, \H218F)

IsAlpha(c) ==
    \/ In(c, \H0041, \H005A) \/ In(c, \H0061, \H007A) \/ In(c, \H00C0, \H00FF)
    \/ In(c, \H0100, \H017F) \/ In(c, \H0180, \H0236) \/ In(c, \H1E00, \H1EF9)
    \/ In(c, \HFF21, \HFF3A) \/ In(c, \HFF41, \HFF5A)

IsHiragana(c) == In(c, \H3041, \H309F)

IsKatakana(c) ==
    \/ In(c, \H30A1, \H30FF) \/ In(c, \H31F0, \H31FF) \/ In(c, \HFF66, \HFF9D)
    \/ In(c, \HFF9E, \HFF9F)

IsGreek(c) == In(c, \H0374, \H03FB)

IsCyrillic(c) == In(c, \H0400, \H04F9) \/ In(c, \H0500, \H050F)

\* CATEGORIES, in table order; func is applied through Func
CATEGORIES ==
    << [name |-> "Space",    invoke |-> FALSE, group |-> TRUE ],
       [name |-> "Kanji",    invoke |-> FALSE, group |-> FALSE],
       [name |-> "Symbol",   invoke |-> TRUE,  group |-> TRUE ],
       [name |-> "Numeric",  invoke |-> TRUE,  group |-> TRUE ],
       [name |-> "Alpha",    invoke |-> FALSE, group |-> TRUE ],
       [name |-> "Hiragana", invoke |-> FALSE, group |-> TRUE ],
       [name |-> "Katakana", invoke |-> TRUE,  group |-> TRUE ],
       [name |-> "Greek",    invoke |-> TRUE,  group |-> TRUE ],
       [name |-> "Cyrillic", invoke |-> TRUE,  group |-> TRUE ] >>

\* (category.func)(c)
Func(category, c) ==
    CASE category.name = "Space"    -> IsSpace(c)
      [] category.name = "Kanji"    -> IsKanji(c)
      [] category.name = "Symbol"   -> IsSymbol(c)
      [] category.name = "Numeric"  -> IsNumeric(c)
      [] category.name = "Alpha"    -> IsAlpha(c)
      [] category.name = "Hiragana" -> IsHiragana(c)
      [] category.name = "Katakana" -> IsKatakana(c)
      [] category.name = "Greek"    -> IsGreek(c)
      [] category.name = "Cyrillic" -> IsCyrillic(c)

\* a code point that at least one of the nine categories accepts
InSomeCategory(c) == \E k \in 1..Len(CATEGORIES) : Func(CATEGORIES[k], c)

---------------------------------------------------------------------------
(* dictionary.rs                                                           *)

PARTICLE == 4194304
EXPRESSION == 2048
NOUN == 8192
IDIOMATIC_EXPRESSION == 256

\* PartOfSpeech::is_particle
is_particle(p) == Contains(p, PARTICLE)

DictionaryEntry(term_id, p, tag) == [term_id |-> term_id, pos |-> p, tag |-> tag]
TermEntry(entry_index) == [entry_index |-> entry_index, inflection_type |-> "DictionaryForm"]

\* Dictionary::new
DictionaryNew == [entries |-> << >>, kanji |-> << >>, kana |-> << >>]

\* HashMap::get on a map modelled as a function from keys to values
Get(map, key) == IF key \in DOMAIN map THEN Some(map[key]) ELSE None

---------------------------------------------------------------------------
(* Inputs of the model: code points, texts and dictionaries.               *)

sA    == << \H0041 >>    \* "A"
sHA   == << \H306F >>    \* hiragana HA
sKA   == << \H30AB >>    \* katakana KA
sNEKO == << \H732B >>    \* the ideograph for cat
sPUA  == << \HE000 >>    \* a private-use code point, in none of the nine categories

Alphabet == Range(sA \o sHA \o sKA \o sNEKO \o sPUA)

Texts == UNION { [1..n -> Alphabet] : n \in 0..MaxLen }

Entries ==
    << DictionaryEntry(100, NOUN, 0),
       DictionaryEntry(200, PARTICLE, 0),
       DictionaryEntry(300, EXPRESSION, IDIOMATIC_EXPRESSION),
       DictionaryEntry(400, NOUN, 0) >>

\* one key per map
DictBasic ==
    [entries |-> Entries,
     kanji   |-> (sNEKO :> << TermEntry(0) >>),
     kana    |-> (sHA :> << TermEntry(1) >>)]

\* homographs and keys of two code points
DictRich ==
    [entries |-> Entries,
     kanji   |-> (sNEKO :> << TermEntry(0), TermEntry(3) >>)
                 @@ ((sNEKO \o sHA) :> << TermEntry(2) >>),
     kana    |-> (sKA :> << TermEntry(3) >>)
                 @@ ((sHA \o sKA) :> << TermEntry(2), TermEntry(1) >>)]

\* keys filed in the map their category does not select, and a NonWord key
DictCross ==
    [entries |-> Entries,
     kanji   |-> (sKA :> << TermEntry(0) >>) @@ (sHA :> << TermEntry(3) >>)
                 @@ (sA :> << TermEntry(2) >>),
     kana    |-> (sNEKO :> << TermEntry(1) >>) @@ (sA :> << TermEntry(2) >>)]

Dictionaries == { DictionaryNew, DictBasic, DictRich, DictCross }

---------------------------------------------------------------------------
(* tokenizer.rs: scoring.                                                  *)

\* get_score with the base score starting at 0.0 instead of 1.0
get_score_zero_base(text_len, category, dictionary_entry) ==
    LET katakana == IF category = "Katakana" THEN 15 ELSE 0
        entry    == Unwrap(dictionary_entry)
        bonus    ==
            IF IsSome(dictionary_entry)
            THEN 5 + (IF is_particle(entry.pos) THEN 4 ELSE 0)
                   + (IF Contains(entry.pos, EXPRESSION) THEN 2 ELSE 0)
                   + (IF Contains(entry.tag, IDIOMATIC_EXPRESSION) THEN 8 ELSE 0)
            ELSE 0
        power    == IF category = "Word" THEN 3 ELSE 2
    IN  (0 + katakana + bonus) * Pow(text_len, power)

\* Tokenizer::get_score; score * text_len.powf(power)
get_score(text_len, category, dictionary_entry) ==
    LET katakana == IF category = "Katakana" THEN 15 ELSE 0
        entry    == Unwrap(dictionary_entry)
        bonus    ==
            IF IsSome(dictionary_entry)
            THEN 5 + (IF is_particle(entry.pos) THEN 4 ELSE 0)
                   + (IF Contains(entry.pos, EXPRESSION) THEN 2 ELSE 0)
                   + (IF Contains(entry.tag, IDIOMATIC_EXPRESSION) THEN 8 ELSE 0)
            ELSE 0
        power    == IF category = "Word" THEN 3 ELSE 2
    IN  (1 + katakana + bonus) * Pow(text_len, power)

---------------------------------------------------------------------------
(* lattice.rs                                                              *)

\* !0usize, the largest usize; modelled by the largest integer of the checker
NODE_ID_NONE == 2147483647
NODE_ID_BEGIN == NODE_ID_NONE - 1

LatticeNode(term_id, s, e, score) == [term_id |-> term_id, start |-> s, end |-> e, score |-> score]

\* the state before Lattice::new has run
NoLattice == [length |-> 0, nodes |-> << >>, start |-> << >>, end |-> << >>]

\* vec![Vec::new(); length]
EmptyBuckets(len) == [ k \in 1..len |-> << >> ]

\* v[i] of a Vec indexed from 0 is in bounds
InBounds(v, i) == i >= 0 /\ i < Len(v)

\* v[i].push(x)
Push(v, i, x) == [ v EXCEPT ![i + 1] = Append(@, x) ]

\* Lattice::new does not panic: end[0] exists
NewOk(len) == InBounds(EmptyBuckets(len), 0)

\* Lattice::new, when it does not panic
LatticeNewOf(len) ==
    [length |-> len,
     nodes  |-> << >>,
     start  |-> EmptyBuckets(len),
     end    |-> Push(EmptyBuckets(len), 0, NODE_ID_BEGIN)]

\* Lattice::add_node does not panic: both bucket indices are in bounds
AddNodeOk(lat, node) == InBounds(lat.start, node.start) /\ InBounds(lat.end, node.end)

\* add_node that drops a node equal to one already in the lattice
add_node_dedup(lat, node) ==
    IF node \in Range(lat.nodes) THEN lat
    ELSE LET node_id == Len(lat.nodes)
         IN  [lat EXCEPT !.start = Push(@, node.start, node_id),
                         !.end   = Push(@, node.end, node_id),
                         !.nodes = Append(@, node)]

\* Lattice::add_node, when it does not panic
add_node(lat, node) ==
    LET node_id == Len(lat.nodes)
    IN  [lat EXCEPT !.start = Push(@, node.start, node_id),
                    !.end   = Push(@, node.end, node_id),
                    !.nodes = Append(@, node)]

\* add_node for each node of a sequence, in order, stopping at the first panic
RECURSIVE AddNodes(_, _)
AddNodes(acc, ns) ==
    IF ns = << >> \/ acc.panic # "" THEN acc
    ELSE IF AddNodeOk(acc.lattice, Head(ns))
         THEN AddNodes([acc EXCEPT !.lattice = add_node(@, Head(ns))], Tail(ns))
         ELSE [acc EXCEPT !.panic = "add_node: index out of bounds"]

---------------------------------------------------------------------------
(* tokenizer.rs: candidate enumeration.                                    *)

\* a call inner(substring, start, end) of a closure
Call(substring, s, e) == [substring |-> substring, start |-> s, end |-> e]

Min(a, b) == IF a < b THEN a ELSE b

\* Tokenizer::inner_loop: the calls of `inner`, for end in (start + 1)..length;
\* the unwrap of start_pos fails when start is not a position of text
inner_loop(txt, s, len) ==
    IF ~IsSome(NthPos(txt, s))
    THEN [panic |-> "inner_loop: unwrap on None", calls |-> << >>]
    ELSE LET start_pos == Unwrap(NthPos(txt, s))
             ends      == [ k \in 1..(len - (s + 1)) |-> s + k ]
         IN  IF \E k \in 1..Len(ends) : ~IsSome(NthPos(txt, ends[k]))
             THEN [panic |-> "inner_loop: unwrap on None", calls |-> << >>]
             ELSE [panic |-> "",
                   calls |-> [ k \in 1..Len(ends) |->
                       Call(Slice(txt, start_pos, Unwrap(NthPos(txt, ends[k]))), s, ends[k]) ]]

\* the scan of a group category: ((start + 1)..length).zip(char_indices().skip(start)),
\* count = the number of leading pairs whose code point satisfies func
GroupCount(category, txt, s, len) ==
    LET pairs == Min(len - (s + 1), Len(txt) - s)
        ok(n) == \A k \in 1..n : Func(category, txt[s + k])
    IN  IF pairs <= 0 THEN 0
        ELSE CHOOSE n \in 0..pairs : ok(n) /\ (n = pairs \/ ~Func(category, txt[s + n + 1]))

\* one category of the table at position start: the calls of `inner` it makes
CategoryCalls(category, txt, s, len) ==
    LET start_pos == Unwrap(NthPos(txt, s))
    IN  IF category.group
        THEN LET count   == GroupCount(category, txt, s, len)
                 \* char_idx of the last pair that matched: the offset of code point start + count - 1
                 end_pos == CharIndices(txt)[s + count][1]
                 end     == s + count
             IN  IF count = 0 THEN << >>
                 ELSE << Call(Slice(txt, start_pos, end_pos), s, end) >>
        ELSE IF IsSome(Nth(txt, s))
             THEN LET end_pos == Unwrap(Nth(txt, s))[1]
                      c       == Unwrap(Nth(txt, s))[2]
                  IN  IF ~Func(category, c) THEN << >>
                      ELSE << Call(Slice(txt, start_pos, end_pos), s, s + 1) >>
             ELSE << >>

\* Runs without the gate: every category runs at every position
RunsAlways(force, category) == TRUE

\* the categories that run: `if !force && !category.invoke { continue; }`
Runs(force, category) == force \/ category.invoke

\* Tokenizer::inner_loop_unknown_term: the calls of `inner`, in table order
RECURSIVE UnknownCalls(_, _, _, _, _)
UnknownCalls(k, force, txt, s, len) ==
    IF k > Len(CATEGORIES) THEN << >>
    ELSE (IF Runs(force, CATEGORIES[k]) THEN CategoryCalls(CATEGORIES[k], txt, s, len) ELSE << >>)
         \o UnknownCalls(k + 1, force, txt, s, len)

inner_loop_unknown_term(force, txt, s, len) ==
    IF (s + 1) >= len THEN << >> ELSE UnknownCalls(1, force, txt, s, len)

\* LookupTerm with the two maps exchanged
LookupTermSwapped(dict, category, substring) ==
    CASE category \in { "Kana", "Katakana" } -> Get(dict.kanji, substring)
      [] category = "Word"                   -> Get(dict.kana, substring)
      [] category = "NonWord"                -> None

\* the map the category of a substring selects, looked up with the substring
LookupTerm(dict, category, substring) ==
    CASE category \in { "Kana", "Katakana" } -> Get(dict.kana, substring)
      [] category = "Word"                   -> Get(dict.kanji, substring)
      [] category = "NonWord"                -> None

\* DictClosure reading the entries of a key in an order that is not the stored
\* one and differs from call to call (an unordered container)
DictClosureUnordered(dict, call) ==
    LET category   == categorize_word(call.substring)
        term_entry == LookupTerm(dict, category, call.substring)
        order(es)  == IF run = 1 THEN es ELSE Reverse(es)
    IN  IF IsSome(term_entry)
        THEN [ k \in 1..Len(Unwrap(term_entry)) |->
                 LET dictionary_entry ==
                         dict.entries[order(Unwrap(term_entry))[k].entry_index + 1]
                 IN  LatticeNode(Some(dictionary_entry.term_id), call.start, call.end,
                                 get_score(call.end - call.start, category,
                                           Some(dictionary_entry))) ]
        ELSE << >>

\* the dictionary closure of tokenize, for one call: the nodes it adds
DictClosure(dict, call) ==
    LET category   == categorize_word(call.substring)
        term_entry == LookupTerm(dict, category, call.substring)
    IN  IF IsSome(term_entry)
        THEN [ k \in 1..Len(Unwrap(term_entry)) |->
                 LET dictionary_entry == dict.entries[Unwrap(term_entry)[k].entry_index + 1]
                 IN  LatticeNode(Some(dictionary_entry.term_id), call.start, call.end,
                                 get_score(call.end - call.start, category,
                                           Some(dictionary_entry))) ]
        ELSE << >>

\* every entry_index the closure reads for a call is an index of entries
DictClosureOk(dict, call) ==
    LET term_entry == LookupTerm(dict, categorize_word(call.substring), call.substring)
    IN  IsSome(term_entry) =>
            \A k \in 1..Len(Unwrap(term_entry)) :
                InBounds(dict.entries, Unwrap(term_entry)[k].entry_index)

\* the unknown-word closure of tokenize, for one call: the node it adds
UnknownClosure(call) ==
    LET category == categorize_word(call.substring)
    IN  LatticeNode(None, call.start, call.end,
                    get_score(call.end - call.start, category, None))

RECURSIVE DictNodes(_, _)
DictNodes(dict, calls) ==
    IF calls = << >> THEN << >>
    ELSE DictClosure(dict, Head(calls)) \o DictNodes(dict, Tail(calls))

UnknownNodes(calls) == [ k \in 1..Len(calls) |-> UnknownClosure(calls[k]) ]

---------------------------------------------------------------------------
(* lattice.rs: find_path.                                                  *)

\* MaxScan comparing each candidate with the cutoff 0.0 instead of the running
\* maximum: every reachable node of positive score replaces the candidate
RECURSIVE MaxScanNoUpdate(_, _, _, _)
MaxScanNoUpdate(bucket, ts, prev, best) ==
    IF bucket = << >> \/ best.panic THEN best
    ELSE LET id == Head(bucket)
         IN  IF ~InBounds(prev, id) THEN [best EXCEPT !.panic = TRUE]
             ELSE IF prev[id + 1] # NODE_ID_NONE /\ ts[id + 1] > 0
                  THEN MaxScanNoUpdate(Tail(bucket), ts, prev,
                                       [best EXCEPT !.node = Some(id), !.score = ts[id + 1]])
                  ELSE MaxScanNoUpdate(Tail(bucket), ts, prev, best)

\* MaxScan with `>=` for `>`: on equal scores the later candidate replaces the earlier
RECURSIVE MaxScanTiesLast(_, _, _, _)
MaxScanTiesLast(bucket, ts, prev, best) ==
    IF bucket = << >> \/ best.panic THEN best
    ELSE LET id == Head(bucket)
         IN  IF ~InBounds(prev, id) THEN [best EXCEPT !.panic = TRUE]
             ELSE IF prev[id + 1] # NODE_ID_NONE /\ ts[id + 1] >= best.score
                  THEN MaxScanTiesLast(Tail(bucket), ts, prev,
                                       [best EXCEPT !.node = Some(id), !.score = ts[id + 1]])
                  ELSE MaxScanTiesLast(Tail(bucket), ts, prev, best)

\* MaxScan without `if previous_nodes[id] != NONE`: unreachable nodes are candidates
RECURSIVE MaxScanAny(_, _, _, _)
MaxScanAny(bucket, ts, prev, best) ==
    IF bucket = << >> \/ best.panic THEN best
    ELSE LET id == Head(bucket)
         IN  IF ~InBounds(prev, id) THEN [best EXCEPT !.panic = TRUE]
             ELSE IF ts[id + 1] > best.score
                  THEN MaxScanAny(Tail(bucket), ts, prev,
                                  [best EXCEPT !.node = Some(id), !.score = ts[id + 1]])
                  ELSE MaxScanAny(Tail(bucket), ts, prev, best)

\* the scan for the reachable node of greatest total score in a bucket:
\* `if previous_nodes[id] != NONE { if total_scores[id] > max_score { ... } }`;
\* best = [node |-> Option<NodeId>, score |-> f32, panic |-> BOOLEAN]
RECURSIVE MaxScan(_, _, _, _)
MaxScan(bucket, ts, prev, best) ==
    IF bucket = << >> \/ best.panic THEN best
    ELSE LET id == Head(bucket)
         IN  IF ~InBounds(prev, id) THEN [best EXCEPT !.panic = TRUE]
             ELSE IF prev[id + 1] # NODE_ID_NONE /\ ts[id + 1] > best.score
                  THEN MaxScan(Tail(bucket), ts, prev,
                               [best EXCEPT !.node = Some(id), !.score = ts[id + 1]])
                  ELSE MaxScan(Tail(bucket), ts, prev, best)

\* `let mut max_previous_node = None; let mut max_previous_score = 0.0;`
NoBest == [node |-> None, score |-> 0, panic |-> FALSE]

\* Anchor with every node anchored, not only those of start[0]
AnchorAll(bucket, prev) == [ k \in 1..Len(prev) |-> NODE_ID_BEGIN ]

\* the anchors: previous_nodes[i] = BEGIN for i in start[0]
RECURSIVE Anchor(_, _)
Anchor(bucket, prev) ==
    IF bucket = << >> THEN prev
    ELSE Anchor(Tail(bucket), [prev EXCEPT ![Head(bucket) + 1] = NODE_ID_BEGIN])

\* the body of `for right_node_id in self.start[i]`, for the right nodes in order;
\* st = [ts, prev, panic]
RECURSIVE PropagateRights(_, _, _)
PropagateRights(rights, lefts, st) ==
    IF rights = << >> \/ st.panic THEN st
    ELSE LET r    == Head(rights)
             best == MaxScan(lefts, st.ts, st.prev, NoBest)
         IN  IF best.panic THEN [st EXCEPT !.panic = TRUE]
             ELSE IF IsSome(best.node)
                  THEN PropagateRights(Tail(rights), lefts,
                         [st EXCEPT !.prev[r + 1] = Unwrap(best.node),
                                    !.ts[r + 1] = @ + best.score])
                  ELSE PropagateRights(Tail(rights), lefts, st)

---------------------------------------------------------------------------
(* The state machine.                                                      *)

NoLocals ==
    /\ start = 0
    /\ found_any_term = FALSE
    /\ total_scores = << >>
    /\ previous_nodes = << >>
    /\ pos = 0
    /\ current_node_id = 0
    /\ node_path = << >>
    /\ path = << >>
    /\ tokens = << >>

Init ==
    /\ text \in Texts
    /\ dictionary \in Dictionaries
    /\ pc = "tokenize"
    /\ run = 1
    /\ lattice = NoLattice
    /\ NoLocals
    /\ first_tokens = << >>
    /\ unknown_ids = {}
    /\ added = << >>
    /\ panic = ""

\* the locals of a call that has not started
ResetLocals ==
    /\ start' = 0
    /\ found_any_term' = FALSE
    /\ total_scores' = << >>
    /\ previous_nodes' = << >>
    /\ pos' = 0
    /\ current_node_id' = 0
    /\ node_path' = << >>
    /\ path' = << >>
    /\ tokens' = << >>

Panic(msg) == pc' = "panicked" /\ panic' = msg

\* tokenize, lines 270-272: count the code points and construct the lattice
TokenizeNew ==
    /\ pc = "tokenize"
    /\ LET len == Len(text)
       IN  IF NewOk(len)
           THEN /\ lattice' = LatticeNewOf(len)
                /\ pc' = IF 0 < len THEN "dict" ELSE "find_path"
                /\ panic' = panic
           ELSE /\ Panic("Lattice::new: index out of bounds")
                /\ lattice' = lattice
    /\ start' = 0
    /\ UNCHANGED << text, dictionary, run, found_any_term, total_scores, previous_nodes,
                    pos, current_node_id, node_path, path, tokens, first_tokens, unknown_ids, added >>

\* tokenize, lines 275-306: the dictionary candidates of position start
DictCandidates ==
    /\ pc = "dict"
    /\ LET il == inner_loop(text, start, lattice.length)
       IN  IF il.panic # ""
           THEN Panic(il.panic) /\ UNCHANGED << lattice, found_any_term, added >>
           ELSE IF \E k \in 1..Len(il.calls) : ~DictClosureOk(dictionary, il.calls[k])
           THEN Panic("entries: index out of bounds") /\ UNCHANGED << lattice, found_any_term, added >>
           ELSE LET ns  == DictNodes(dictionary, il.calls)
                    acc == AddNodes([lattice |-> lattice, panic |-> ""], ns)
                IN  IF acc.panic # ""
                    THEN Panic(acc.panic) /\ UNCHANGED << lattice, found_any_term, added >>
                    ELSE /\ lattice' = acc.lattice
                         /\ added' = added \o ns
                         /\ found_any_term' = (ns # << >>)
                         /\ pc' = "unknown"
                         /\ panic' = panic
    /\ UNCHANGED << text, dictionary, run, start, total_scores, previous_nodes, pos,
                    current_node_id, node_path, path, tokens, first_tokens, unknown_ids >>

\* tokenize, lines 308-323: the unknown-word fallback of position start,
\* then the next iteration of `for start in 0..length`
UnknownTerms ==
    /\ pc = "unknown"
    /\ LET calls == inner_loop_unknown_term(~found_any_term, text, start, lattice.length)
           acc   == AddNodes([lattice |-> lattice, panic |-> ""], UnknownNodes(calls))
       IN  IF acc.panic # ""
           THEN Panic(acc.panic) /\ UNCHANGED << lattice, start, unknown_ids, added >>
           ELSE /\ lattice' = acc.lattice
                /\ added' = added \o UnknownNodes(calls)
                /\ unknown_ids' = unknown_ids \cup
                       { id \in 0..(Len(acc.lattice.nodes) - 1) : id >= Len(lattice.nodes) }
                /\ start' = start + 1
                /\ pc' = IF start + 1 < lattice.length THEN "dict" ELSE "find_path"
                /\ panic' = panic
    /\ UNCHANGED << text, dictionary, run, found_any_term, total_scores, previous_nodes,
                    pos, current_node_id, node_path, path, tokens, first_tokens >>

\* FindPathInit without `if self.nodes.is_empty() { return vec![]; }`
FindPathInitNoEarlyReturn ==
    /\ pc = "find_path"
    /\ total_scores' = [ k \in 1..Len(lattice.nodes) |-> lattice.nodes[k].score ]
    /\ previous_nodes' =
         Anchor(lattice.start[1], [ k \in 1..Len(lattice.nodes) |-> NODE_ID_NONE ])
    /\ pos' = 1
    /\ pc' = "propagate"
    /\ UNCHANGED << text, dictionary, run, lattice, start, found_any_term, current_node_id,
                    node_path, path, tokens, first_tokens, unknown_ids, added, panic >>

\* find_path, lines 63-74: the early return, or the initial scores and the anchors
FindPathInit ==
    /\ pc = "find_path"
    /\ IF lattice.length = 0 \/ lattice.nodes = << >>
       THEN /\ path' = << >>
            /\ pc' = "find_path_done"
            /\ UNCHANGED << total_scores, previous_nodes, pos >>
       ELSE /\ total_scores' = [ k \in 1..Len(lattice.nodes) |-> lattice.nodes[k].score ]
            /\ previous_nodes' =
                 Anchor(lattice.start[1], [ k \in 1..Len(lattice.nodes) |-> NODE_ID_NONE ])
            /\ pos' = 1
            /\ pc' = "propagate"
            /\ path' = path
    /\ UNCHANGED << text, dictionary, run, lattice, start, found_any_term,
                    current_node_id, node_path, tokens, first_tokens, unknown_ids, added, panic >>

\* find_path, lines 76-100: one iteration of `for i in 1..self.length`
Propagate ==
    /\ pc = "propagate"
    /\ pos < lattice.length
    /\ LET st == PropagateRights(lattice.start[pos + 1], lattice.end[pos + 1],
                                 [ts |-> total_scores, prev |-> previous_nodes, panic |-> FALSE])
       IN  IF st.panic
           THEN Panic("find_path: index out of bounds")
                /\ UNCHANGED << total_scores, previous_nodes, pos >>
           ELSE /\ total_scores' = st.ts
                /\ previous_nodes' = st.prev
                /\ pos' = pos + 1
                /\ UNCHANGED << pc, panic >>
    /\ UNCHANGED << text, dictionary, run, lattice, start, found_any_term,
                    current_node_id, node_path, path, tokens, first_tokens, unknown_ids, added >>

\* find_path, lines 102-119: the best reachable node of the final bucket
Terminate ==
    /\ pc = "propagate"
    /\ pos >= lattice.length
    /\ LET best == MaxScan(lattice.end[lattice.length], total_scores, previous_nodes, NoBest)
       IN  IF best.panic
           THEN Panic("find_path: index out of bounds")
                /\ UNCHANGED << path, current_node_id, node_path >>
           ELSE IF ~IsSome(best.node)
           THEN /\ path' = << >>
                /\ pc' = "find_path_done"
                /\ UNCHANGED << current_node_id, node_path, panic >>
           ELSE /\ current_node_id' = Unwrap(best.node)
                /\ node_path' = << >>
                /\ pc' = "reconstruct"
                /\ UNCHANGED << path, panic >>
    /\ UNCHANGED << text, dictionary, run, lattice, start, found_any_term,
                    total_scores, previous_nodes, pos, tokens, first_tokens, unknown_ids, added >>

\* find_path, lines 120-123: one iteration of the backward walk
ReconstructStep ==
    /\ pc = "reconstruct"
    /\ IF ~InBounds(previous_nodes, current_node_id)
       THEN Panic("find_path: index out of bounds")
            /\ UNCHANGED << current_node_id, node_path >>
       ELSE /\ previous_nodes[current_node_id + 1] # NODE_ID_BEGIN
            /\ node_path' = Append(node_path, current_node_id)
            /\ current_node_id' = previous_nodes[current_node_id + 1]
            /\ UNCHANGED << pc, panic >>
    /\ UNCHANGED << text, dictionary, run, lattice, start, found_any_term,
                    total_scores, previous_nodes, pos, path, tokens, first_tokens, unknown_ids, added >>

\* find_path, lines 124-126: the walk has reached an anchor; reverse and return
ReconstructEnd ==
    /\ pc = "reconstruct"
    /\ InBounds(previous_nodes, current_node_id)
    /\ previous_nodes[current_node_id + 1] = NODE_ID_BEGIN
    /\ node_path' = Append(node_path, current_node_id)
    /\ path' = Reverse(node_path')
    /\ pc' = "find_path_done"
    /\ UNCHANGED << text, dictionary, run, lattice, start, found_any_term, total_scores,
                    previous_nodes, pos, current_node_id, tokens, first_tokens, unknown_ids, added, panic >>

\* the token of a path node: tokenize, lines 360-369
TokenOf(txt, node) ==
    [term_id |-> node.term_id,
     token   |-> Slice(txt, Unwrap(NthPos(txt, node.start)), Unwrap(NthPos(txt, node.end)))]

\* both unwraps of the token of a node succeed
TokenOk(txt, node) == IsSome(NthPos(txt, node.start)) /\ IsSome(NthPos(txt, node.end))

\* tokenize, lines 357-370: the tokens of the path
Materialize ==
    /\ pc = "find_path_done"
    /\ IF \E k \in 1..Len(path) : ~TokenOk(text, lattice.nodes[path[k] + 1])
       THEN Panic("tokenize: unwrap on None") /\ tokens' = tokens
       ELSE /\ tokens' = [ k \in 1..Len(path) |-> TokenOf(text, lattice.nodes[path[k] + 1]) ]
            /\ pc' = "done"
            /\ panic' = panic
    /\ UNCHANGED << text, dictionary, run, lattice, start, found_any_term, total_scores,
                    previous_nodes, pos, current_node_id, node_path, path, first_tokens, unknown_ids, added >>

\* the caller keeps the result and calls tokenize again, with the same text,
\* on the same Tokenizer; the locals of the first call are gone
TokenizeAgain ==
    /\ pc = "done"
    /\ run = 1
    /\ run' = 2
    /\ first_tokens' = tokens
    /\ pc' = "tokenize"
    /\ lattice' = NoLattice
    /\ ResetLocals
    /\ unknown_ids' = {}
    /\ added' = << >>
    /\ UNCHANGED << text, dictionary, panic >>

Next ==
    \/ TokenizeNew
    \/ DictCandidates
    \/ UnknownTerms
    \/ FindPathInit
    \/ Propagate
    \/ Terminate
    \/ ReconstructStep
    \/ ReconstructEnd
    \/ Materialize
    \/ TokenizeAgain

Spec == Init /\ [][Next]_vars

---------------------------------------------------------------------------
(* A lattice built directly through the public interface of lattice.rs:    *)
(* Lattice::new, any add_node calls with 0 <= start < end <= length and a  *)
(* positive score, then find_path.                                         *)

LInit ==
    /\ text = << >>
    /\ dictionary = DictionaryNew
    /\ pc = "new"
    /\ run = 1
    /\ lattice = NoLattice
    /\ NoLocals
    /\ first_tokens = << >>
    /\ unknown_ids = {}
    /\ added = << >>
    /\ panic = ""

LatticeNew ==
    /\ pc = "new"
    /\ \E len \in 0..MaxLen :
         IF NewOk(len)
         THEN lattice' = LatticeNewOf(len) /\ pc' = "add" /\ panic' = panic
         ELSE Panic("Lattice::new: index out of bounds") /\ lattice' = lattice
    /\ UNCHANGED << text, dictionary, run, start, found_any_term, total_scores,
                    previous_nodes, pos, current_node_id, node_path, path, tokens,
                    first_tokens, unknown_ids, added >>

AddNode ==
    /\ pc = "add"
    /\ Len(lattice.nodes) < MaxNodes
    /\ \E s \in 0..(lattice.length - 1), e \in 1..lattice.length, score \in 1..MaxScore :
         /\ s < e
         /\ LET node == LatticeNode(None, s, e, score)
            IN  IF AddNodeOk(lattice, node)
                THEN /\ lattice' = add_node(lattice, node)
                     /\ added' = Append(added, node)
                     /\ UNCHANGED << pc, panic >>
                ELSE Panic("add_node: index out of bounds") /\ UNCHANGED << lattice, added >>
    /\ UNCHANGED << text, dictionary, run, start, found_any_term, total_scores,
                    previous_nodes, pos, current_node_id, node_path, path, tokens,
                    first_tokens, unknown_ids >>

CallFindPath ==
    /\ pc = "add"
    /\ pc' = "find_path"
    /\ UNCHANGED << text, dictionary, run, lattice, start, found_any_term, total_scores,
                    previous_nodes, pos, current_node_id, node_path, path, tokens,
                    first_tokens, unknown_ids, added, panic >>

LNext ==
    \/ LatticeNew
    \/ AddNode
    \/ CallFindPath
    \/ FindPathInit
    \/ Propagate
    \/ Terminate
    \/ ReconstructStep
    \/ ReconstructEnd

LSpec == LInit /\ [][LNext]_vars

---------------------------------------------------------------------------
(* Vocabulary of the properties.                                           *)

\* tokenize has returned
Returned == pc = "done"

\* the lattice of the call is complete: every start position has been processed
LatticeBuilt == pc \in { "find_path", "propagate", "reconstruct", "find_path_done", "done" }

\* the surfaces of the returned tokens
Surfaces == [ k \in 1..Len(tokens) |-> tokens[k].token ]

\* the node behind the k-th element of the returned path
PathNode(k) == lattice.nodes[path[k] + 1]

\* the code points [a, b) of the input
Sub(a, b) == SubSeq(text, a + 1, b)

RECURSIVE SumScores(_, _)
SumScores(lat, ids) ==
    IF ids = << >> THEN 0 ELSE lat.nodes[Head(ids) + 1].score + SumScores(lat, Tail(ids))

\* the chains of adjacent nodes from position 0 to the final bucket by_end[length - 1]
Chains ==
    LET ids == 0..(Len(lattice.nodes) - 1)
        n(c, k) == lattice.nodes[c[k] + 1]
    IN  { c \in UNION { [1..k -> ids] : k \in 1..lattice.length } :
            /\ n(c, 1).start = 0
            /\ \A k \in 1..(Len(c) - 1) : n(c, k).end = n(c, k + 1).start
            /\ n(c, Len(c)).end = lattice.length - 1 }

\* no node of the lattice came from the dictionary
MatchesNothing == \A k \in 1..Len(lattice.nodes) : ~IsSome(lattice.nodes[k].term_id)

\* w is a key of the map that the category of w selects
SelectedKey(w) ==
    \/ categorize_word(w) \in { "Katakana", "Kana" } /\ w \in DOMAIN dictionary.kana
    \/ categorize_word(w) = "Word" /\ w \in DOMAIN dictionary.kanji

\* the term ids of the entries listed under w in the map that the category of w selects
ListedTermIds(w) ==
    LET m == IF categorize_word(w) = "Word" THEN dictionary.kanji ELSE dictionary.kana
    IN  { dictionary.entries[m[w][j].entry_index + 1].term_id : j \in 1..Len(m[w]) }

\* the spans [a, b) between neighbouring cut points of a segmentation of the input
Pieces(cuts) ==
    LET pts == cuts \cup { 0, Len(text) }
    IN  { ab \in pts \X pts : ab[1] < ab[2] /\ ~\E c \in pts : ab[1] < c /\ c < ab[2] }

\* the input is the concatenation of the keys at the pieces, and no other key occurs in it
KeySegmentation(cuts) ==
    /\ \A ab \in Pieces(cuts) : SelectedKey(Sub(ab[1], ab[2]))
    /\ \A a \in 0..(Len(text) - 1), b \in 1..Len(text) :
         (a < b /\ Sub(a, b) \in (DOMAIN dictionary.kanji \cup DOMAIN dictionary.kana))
            => << a, b >> \in Pieces(cuts)

---------------------------------------------------------------------------
(* Properties.                                                             *)

\* C1: the surfaces of the tokens tokenize(s) returns, concatenated in order, are
\* exactly s: every code point of s, the last one included, lies in one token.
C1_SurfaceCoverage == Returned => Concat(Surfaces) = text

\* C2: tokenize("") returns the empty token sequence, for every dictionary: the
\* lattice for N = 0 is constructed and the call does not abort.
C2_EmptyInput == text = << >> => (panic = "" /\ (Returned => tokens = << >>))

\* C3: tokenize completes for every input and every dictionary whose entry_index
\* values are in range: no out-of-range index, failed unwrap or failed
\* assertion is reachable.
C3_Totality == pc # "panicked" /\ panic = ""

\* C4: the spans behind the returned tokens are non-empty, the first starts at
\* position 0 and each later one starts where the previous one ends.
C4_ChainFromZero ==
    Returned =>
        /\ Len(tokens) = Len(path)
        /\ \A k \in 1..Len(path) :
             /\ PathNode(k).start < PathNode(k).end
             /\ tokens[k].token = Sub(PathNode(k).start, PathNode(k).end)
             /\ tokens[k].token # << >>
             /\ k = 1 => PathNode(k).start = 0
             /\ k > 1 => PathNode(k).start = PathNode(k - 1).end

\* C4 witness: a call returned at least two tokens
C4_Witness == Returned /\ Len(tokens) >= 2

\* C5: a returned token with term_id = t has a surface that is a key of the map
\* its category selects, and that key lists an entry with term_id = t; a token
\* of the unknown-word fallback carries no term_id.
C5_DictionaryFidelity ==
    Returned =>
        \A k \in 1..Len(tokens) :
            /\ IsSome(tokens[k].term_id) =>
                 /\ SelectedKey(tokens[k].token)
                 /\ Unwrap(tokens[k].term_id) \in ListedTermIds(tokens[k].token)
            /\ path[k] \in unknown_ids => tokens[k].term_id = None

\* C5 witness: a call returned a dictionary token and a fallback token
C5_Witness ==
    /\ Returned
    /\ \E k \in 1..Len(tokens) : IsSome(tokens[k].term_id)
    /\ \E k \in 1..Len(tokens) : path[k] \in unknown_ids

\* C6: on a lattice of positive scores, the path find_path returns is a chain
\* from position 0 to the final bucket whose score sum is at least that of
\* every such chain, and it is empty only when there is no such chain.
C6_ScoringLemma ==
    pc = "find_path_done" =>
        /\ path # << >> => path \in Chains
        /\ \A c \in Chains : SumScores(lattice, c) <= SumScores(lattice, path)
        /\ path = << >> => Chains = {}

\* C6 witness: find_path returned a path of two nodes that beats a chain of one
C6_Witness ==
    /\ pc = "find_path_done"
    /\ Len(path) >= 2
    /\ \E c \in Chains : Len(c) = 1 /\ SumScores(lattice, c) < SumScores(lattice, path)

\* C7: with a dictionary that matches nothing, an input of two or more code
\* points of one grouped category yields one token, the whole input, without
\* term_id.
C7_GroupedRun ==
    ( /\ Returned
      /\ MatchesNothing
      /\ Len(text) >= 2
      /\ \E j \in 1..Len(CATEGORIES) :
           CATEGORIES[j].group /\ \A k \in 1..Len(text) : Func(CATEGORIES[j], text[k]) )
    => tokens = << [term_id |-> None, token |-> text] >>

\* C8: an input of Han/Hiragana code points that is a concatenation of
\* dictionary keys k1..km, no other key occurring in it, yields m tokens with
\* surfaces k1..km, each with the term_id of an entry listed under its key.
C8_KeyConcatenation ==
    ( /\ Returned
      /\ Len(text) >= 1
      /\ \A k \in 1..Len(text) : ScriptHan(text[k]) \/ ScriptHiragana(text[k]) )
    => \A cuts \in SUBSET (1..(Len(text) - 1)) :
         KeySegmentation(cuts) =>
            /\ Len(tokens) = Cardinality(Pieces(cuts))
            /\ { << PathNode(k).start, PathNode(k).end >> : k \in 1..Len(path) } = Pieces(cuts)
            /\ \A k \in 1..Len(tokens) :
                 /\ IsSome(tokens[k].term_id)
                 /\ Unwrap(tokens[k].term_id) \in ListedTermIds(tokens[k].token)

\* C9: once the lattice is built, every position whose code point belongs to
\* one of the nine categories has a node that starts there.
C9_NeverStuck ==
    LatticeBuilt =>
        \A p \in 0..(Len(text) - 1) :
            InSomeCategory(text[p + 1]) => lattice.start[p + 1] # << >>

Constructed == Len(lattice.end) >= 1

\* the number of occurrences of x in the sequence b
Count(b, x) == Cardinality({ k \in 1..Len(b) : b[k] = x })

\* the sequence b of node ids is strictly increasing
Increasing(b) == \A k \in 1..(Len(b) - 1) : b[k] < b[k + 1]

\* C11: on a lattice of length N >= 1, add_node accepts every node with
\* 0 <= start < end <= N, those with end = N included, without an
\* out-of-range access.
C11_AddNodeAccepts == lattice.length >= 1 => panic # "add_node: index out of bounds"

Propagated == pc \in { "reconstruct", "find_path_done", "done" } /\ previous_nodes # << >>

\* the positions in a bucket of the nodes that are reachable
ReachableAt(bucket) ==
    { k \in 1..Len(bucket) :
        InBounds(previous_nodes, bucket[k]) /\ previous_nodes[bucket[k] + 1] # NODE_ID_NONE }

\* id is the earliest inserted among the reachable nodes of greatest total score of a bucket
EarliestBest(bucket, id) ==
    \E k \in ReachableAt(bucket) :
        /\ bucket[k] = id
        /\ \A j \in ReachableAt(bucket) :
             /\ total_scores[bucket[j] + 1] <= total_scores[id + 1]
             /\ j < k => total_scores[bucket[j] + 1] < total_scores[id + 1]

\* the entries listed under the key w in the map that the category of w selects
ListedEntries(w) ==
    LET m == IF categorize_word(w) = "Word" THEN dictionary.kanji ELSE dictionary.kana
    IN  [ j \in 1..Len(m[w]) |-> dictionary.entries[m[w][j].entry_index + 1] ]

\* C13: among the reachable left nodes of by_end[p], and among the reachable
\* nodes of the final bucket, that share the greatest total score, find_path
\* selects the one inserted earliest; so a token whose surface lists several
\* entries of equal score carries the term_id of the first entry listed.
C13_TieBreak ==
    /\ Propagated =>
         \A r \in 0..(Len(lattice.nodes) - 1) :
            previous_nodes[r + 1] \notin { NODE_ID_NONE, NODE_ID_BEGIN } =>
                EarliestBest(lattice.end[lattice.nodes[r + 1].start + 1], previous_nodes[r + 1])
    /\ (pc \in { "find_path_done", "done" } /\ path # << >>) =>
         EarliestBest(lattice.end[lattice.length], path[Len(path)])
    /\ Returned =>
         \A k \in 1..Len(tokens) :
            IsSome(tokens[k].term_id) =>
                LET es == ListedEntries(tokens[k].token)
                    sc(e) == get_score(Len(tokens[k].token), categorize_word(tokens[k].token), Some(e))
                IN  (\A j \in 1..Len(es) : sc(es[j]) = sc(es[1]))
                        => Unwrap(tokens[k].term_id) = es[1].term_id

\* C13 witness: a returned token whose surface lists two entries of equal
\* score and different term_id, its two nodes tied as left nodes of the next token
C13_Witness ==
    /\ Returned
    /\ Len(tokens) >= 2
    /\ IsSome(tokens[1].term_id)
    /\ Len(ListedEntries(tokens[1].token)) >= 2
    /\ ListedEntries(tokens[1].token)[1].term_id # ListedEntries(tokens[1].token)[2].term_id
    /\ \E j, k \in ReachableAt(lattice.end[PathNode(2).start + 1]) :
         /\ j # k
         /\ total_scores[lattice.end[PathNode(2).start + 1][j] + 1]
              = total_scores[lattice.end[PathNode(2).start + 1][k] + 1]

\* C14: every node tokenize inserts has score >= 1, the score grows strictly
\* with the length for a fixed category and entry, and so the 0.0 cutoff
\* filters nothing: a right node at p with a reachable left node in by_end[p]
\* becomes reachable, and every reachable node has total_score > 0.
C14_PositiveScores ==
    /\ \A k \in 1..Len(lattice.nodes) : lattice.nodes[k].score >= 1
    /\ \A len \in 1..MaxLen, category \in WordCategory,
          e \in { None } \cup { Some(dictionary.entries[j]) : j \in 1..Len(dictionary.entries) } :
         /\ get_score(len, category, e) >= 1
         /\ get_score(len + 1, category, e) > get_score(len, category, e)
    /\ Propagated =>
         \A r \in 0..(Len(lattice.nodes) - 1) :
            /\ ( /\ lattice.nodes[r + 1].start >= 1
                 /\ ReachableAt(lattice.end[lattice.nodes[r + 1].start + 1]) # {} )
                  => previous_nodes[r + 1] # NODE_ID_NONE
            /\ previous_nodes[r + 1] # NODE_ID_NONE => total_scores[r + 1] > 0

\* C14 witness: find_path linked a right node to a reachable left node, in a
\* lattice that holds a dictionary node and an unknown-word node
C14_Witness ==
    /\ pc = "find_path_done"
    /\ \E r \in 0..(Len(lattice.nodes) - 1) :
         previous_nodes[r + 1] \notin { NODE_ID_NONE, NODE_ID_BEGIN }
    /\ \E k \in 1..Len(lattice.nodes) : IsSome(lattice.nodes[k].term_id)
    /\ unknown_ids # {}

\* the unknown-word nodes that start at position p
UnknownAt(p) == { id \in unknown_ids : lattice.nodes[id + 1].start = p }

\* C15: every unknown-word node [p, end) is scored with the category of its
\* own surface text[p..end): score = score(end - p, categorize(text[p..end)), no entry).
C15_UnknownScore ==
    \A id \in unknown_ids :
        LET node == lattice.nodes[id + 1]
        IN  node.score = get_score(node.end - node.start,
                                   categorize_word(Sub(node.start, node.end)), None)

\* C16: at a position p a category inserts at most one node; the node [p, end)
\* of a group category covers the maximal run from p of code points that
\* satisfy its predicate (end = N or the code point at end does not satisfy
\* it), and a category without group inserts only [p, p + 1), only when the
\* code point at p satisfies its predicate.
C16_GreedyGrouping ==
    LatticeBuilt =>
        \A p \in 0..(Len(text) - 1) :
            /\ Cardinality(UnknownAt(p))
                 <= Cardinality({ j \in 1..Len(CATEGORIES) : Func(CATEGORIES[j], text[p + 1]) })
            /\ \A id \in UnknownAt(p) :
                 LET e == lattice.nodes[id + 1].end
                 IN  \E j \in 1..Len(CATEGORIES) :
                        /\ \A q \in p..(e - 1) : Func(CATEGORIES[j], text[q + 1])
                        /\ IF CATEGORIES[j].group
                           THEN e = Len(text) \/ ~Func(CATEGORIES[j], text[e + 1])
                           ELSE e = p + 1

\* the dictionary nodes that start at position p
DictAt(p) ==
    { id \in 0..(Len(lattice.nodes) - 1) :
        id \notin unknown_ids /\ lattice.nodes[id + 1].start = p }

\* the categories with an invoke flag in S whose predicate the code point at p satisfies
Matching(p, S) ==
    { j \in 1..Len(CATEGORIES) : CATEGORIES[j].invoke \in S /\ Func(CATEGORIES[j], text[p + 1]) }

StartOf(id) == lattice.nodes[id + 1].start

\* C18: reconstruction terminates.  For a lattice whose nodes satisfy
\* start < end, the backward walk from the chosen end node only visits node
\* ids in bounds, never stands on a node whose previous is NONE, visits no
\* node twice (each link leads to a node that ends where the last one starts),
\* has taken fewer than N steps while it runs, and returns at most N nodes,
\* the first anchored at BEGIN, in increasing order of start, being the
\* visited nodes reversed.
C18_ReconstructionTerminates ==
    /\ panic # "find_path: index out of bounds"
    /\ pc = "reconstruct" =>
         /\ InBounds(previous_nodes, current_node_id)
         /\ previous_nodes[current_node_id + 1] # NODE_ID_NONE
         /\ Len(node_path) < lattice.length
         /\ current_node_id \notin Range(node_path)
         /\ \A i, j \in 1..Len(node_path) : i < j => StartOf(node_path[j]) < StartOf(node_path[i])
         /\ node_path # << >> =>
              /\ previous_nodes[node_path[Len(node_path)] + 1] = current_node_id
              /\ lattice.nodes[current_node_id + 1].end = StartOf(node_path[Len(node_path)])
    /\ (pc = "find_path_done" /\ path # << >>) =>
         /\ Len(path) <= lattice.length
         /\ path = Reverse(node_path)
         /\ previous_nodes[path[1] + 1] = NODE_ID_BEGIN
         /\ \A k \in 1..(Len(path) - 1) :
              /\ StartOf(path[k]) < StartOf(path[k + 1])
              /\ previous_nodes[path[k + 1] + 1] = path[k]

\* the walk has taken a step and stands on an earlier node
C18_Witness ==
    /\ pc = "reconstruct"
    /\ Len(node_path) >= 1
    /\ previous_nodes[current_node_id + 1] = NODE_ID_BEGIN

\* the ids of bucket b are indices of the node vectors
IdsInBounds(b) == \A k \in 1..Len(b) : InBounds(lattice.nodes, b[k])

\* C19: sentinels are never used as node indices.  find_path never fails on
\* an index; BEGIN occurs only in by_end[0] and NONE in no bucket; the buckets
\* find_path still has to read (by_start[0] for the anchors, by_start[i] and
\* by_end[i] for i >= 1, the final bucket by_end[N-1]) hold node ids only, the
\* final bucket is not by_end[0] whenever the scan is reached, and the walk
\* stands on a node id.  For N = 1 find_path returns before any bucket is read.
C19_SentinelsNeverIndexed ==
    /\ panic # "find_path: index out of bounds"
    /\ Constructed =>
         /\ \A p \in 1..Len(lattice.start) : IdsInBounds(lattice.start[p])
         /\ \A p \in 2..Len(lattice.end) : IdsInBounds(lattice.end[p])
         /\ lattice.end[1] = << NODE_ID_BEGIN >>
    /\ pc = "propagate" =>
         /\ lattice.length >= 2
         /\ pos >= 1
         /\ Len(total_scores) = Len(lattice.nodes)
         /\ Len(previous_nodes) = Len(lattice.nodes)
         /\ IdsInBounds(lattice.end[lattice.length])
    /\ pc = "reconstruct" => InBounds(lattice.nodes, current_node_id)
    /\ (pc \in { "find_path_done", "done" } /\ lattice.length = 1) => path = << >>

\* find_path has returned for a text of one code point, whose final bucket
\* by_end[0] holds BEGIN
C19_Witness ==
    /\ pc = "find_path_done"
    /\ lattice.length = 1
    /\ lattice.end[lattice.length] = << NODE_ID_BEGIN >>

====
